---- MODULE Spec2Model ----
(***************************************************************************)
(* Model of mcp_scheduler.scheduler.Scheduler together with the parts of   *)
(* persistence.Database and executor.Executor it drives.                   *)
(*                                                                         *)
(* Granularity: every coroutine of the scheduler runs on an asyncio event  *)
(* loop, so one action is one synchronous stretch of a coroutine, from one *)
(* await to the next.  The database calls are synchronous and are part of  *)
(* the stretch that makes them.                                            *)
(*                                                                         *)
(* Time is counted in ticks of half a minute.  A schedule is modelled by   *)
(* its period in ticks: 2 is "* * * * *", 4 is "*/2 * * * *"; the triggers *)
(* of a schedule are the multiples of its period.                          *)
(***************************************************************************)
EXTENDS Integers, FiniteSets, Sequences, TLC

VARIABLES
    now,        \* datetime.utcnow(), in ticks
    store,      \* the tasks table: task id -> row, or NoTask / Deleted
    executions, \* the executions table: the saved records, in insertion order
    active,     \* Scheduler.active
    schedTask,  \* Scheduler._scheduler_task: a poll loop, or 0 for None
    running,    \* Scheduler._running_tasks: task id -> handle, or 0 when absent
    loops,      \* the asyncio tasks created for _scheduler_loop
    execs,      \* the coroutines _execute_task / run_task_now that are alive
    stopPc,     \* the poll loop a stop() in progress is awaiting, or 0
    warned,     \* the logger.warning of the latest public call, or "none"
    onceDone,   \* history: the tasks a successful one-off run has disabled and
                \* no enable_task or update_task has touched since
    calls,      \* how many calls of the public operations have been made
    result      \* what the public call that returned last returned or raised

\* The scheduler, its database and its clock; and everything.
prog == <<now, store, executions, active, schedTask, running, loops, execs,
          stopPc>>
vars == <<prog, warned, onceDone, calls, result>>

----------------------------------------------------------------------------
(* Bounds of the model *)

MaxTime == 2
MaxExecs == 2
MaxLoops == 2
MaxLog == 2
MaxCalls == 4
MaxLifeCalls == 5
ExecutionTimeout == 1
MaxExecTime == 4

\* t1 is the id the server gives the task it adds; t2 is an id of no task.
TaskIds == {"t1", "t2"}
NewIds == {"t1"}
TaskOrder == <<"t1", "t2">>
Schedules == {2, 4}
InvalidSchedule == 0

ExecIds == 1..MaxExecs
LoopIds == 1..MaxLoops

NoTime == -1
NoTask == [row |-> "absent"]
Deleted == [row |-> "deleted"]
NoExec == [coro |-> "none"]

\* What a call gives its caller: None, a Task, a bool, a TaskExecution, or the
\* ValueError it raises.
Ret(kind) == [ret |-> kind]
ReturnedTask(t, task) == [ret |-> "task", id |-> t]
ReturnedExecution(rec) == [ret |-> "execution", execution |-> rec]
DoneHandle == -1

----------------------------------------------------------------------------
(* task.py *)

TaskStatus == {"pending", "running", "completed", "failed", "disabled"}

\* Task(...) as the server constructs it: enabled, pending, never run.
NewTask(schedule, once) ==
    [enabled |-> TRUE, do_only_once |-> once, schedule |-> schedule,
     last_run |-> NoTime, next_run |-> NoTime, status |-> "pending",
     updated_at |-> now]

\* TaskExecution as it is saved.
TaskExecution(t, start, end, status) ==
    [task_id |-> t, status |-> status]

----------------------------------------------------------------------------
(* croniter.croniter(schedule, now).get_next(datetime) *)

ValidSchedule(s) == s \in Schedules

\* The first trigger at or after t, t itself when it is one.
NextTrigger_AtOrAfter(s, t) == IF t % s = 0 THEN t ELSE ((t \div s) + 1) * s

NextTrigger(s, t) == ((t \div s) + 1) * s

----------------------------------------------------------------------------
(* persistence.py *)

IsRow(r) == "enabled" \in DOMAIN r

\* Database.get_task: the row, or None.
get_task(t) == IF IsRow(store[t]) THEN store[t] ELSE NoTask

\* Database.save_task: INSERT OR REPLACE of the whole row.
save_task(st, t, row) == [st EXCEPT ![t] = row]

\* Database.delete_task: the id is never handed out again (uuid4).
delete_task(st, t) == [st EXCEPT ![t] = IF IsRow(st[t]) THEN Deleted ELSE st[t]]

\* Database.save_execution: one more record.
save_execution(ex, rec) == Append(ex, rec)

\* Database.get_executions, its WHERE clause: the records of task t.
ExecutionsOf(ex, t) == SelectSeq(ex, LAMBDA rec : rec.task_id = t)

----------------------------------------------------------------------------
(* asyncio bookkeeping *)

FreeExecs(ex) == {e \in ExecIds : ex[e] = NoExec}
FreeLoops == {l \in LoopIds : loops[l] = "none" /\ l # stopPc}
Min(S) == CHOOSE x \in S : \A y \in S : x <= y

Live(e) == execs[e] # NoExec
ExecsOf(t) == {e \in ExecIds : Live(e) /\ execs[e].task = t}

----------------------------------------------------------------------------
(* Initial state: Scheduler.__init__ over an empty database *)

Init ==
    /\ now = 0
    /\ store = [t \in TaskIds |-> NoTask]
    /\ executions = <<>>
    /\ active = FALSE
    /\ schedTask = 0
    /\ running = [t \in TaskIds |-> 0]
    /\ loops = [l \in LoopIds |-> "none"]
    /\ execs = [e \in ExecIds |-> NoExec]
    /\ stopPc = 0
    /\ warned = "none"
    /\ onceDone = {}
    /\ calls = 0
    /\ result = Ret("none")

\* The clock advances.
Tick ==
    /\ now < MaxTime
    /\ now' = now + 1
    /\ UNCHANGED <<store, executions, active, schedTask, running, loops,
                   execs, stopPc, warned, onceDone, calls, result>>

----------------------------------------------------------------------------
(* Scheduler.start *)

\* start() without the check of active (lines 32-34 left out).
StartUnguarded ==
    /\ FreeLoops # {}
    /\ active' = TRUE
    /\ schedTask' = Min(FreeLoops)
    /\ loops' = [loops EXCEPT ![Min(FreeLoops)] = "created"]
    /\ warned' = "none"
    /\ result' = Ret("none")
    /\ UNCHANGED <<now, store, executions, running, execs, stopPc, onceDone>>

Start ==
    /\ IF active
       THEN /\ warned' = "already running"
            /\ UNCHANGED prog
       ELSE /\ FreeLoops # {}
            /\ active' = TRUE
            /\ schedTask' = Min(FreeLoops)
            /\ loops' = [loops EXCEPT ![Min(FreeLoops)] = "created"]
            /\ warned' = "none"
            /\ UNCHANGED <<now, store, executions, running, execs, stopPc>>
    /\ result' = Ret("none")
    /\ UNCHANGED onceDone

----------------------------------------------------------------------------
(* Scheduler.stop *)

\* task.cancel() on every handle of _running_tasks: a finished task ignores it.
CancelRunning(ex) ==
    [e \in ExecIds |->
        IF ex[e] # NoExec /\ \E t \in TaskIds : running[t] = e
        THEN [ex[e] EXCEPT !.cancelled = TRUE]
        ELSE ex[e]]

\* _scheduler_task.cancel()
CancelLoop(l) ==
    [loops EXCEPT ![l] = IF @ = "none" THEN "none" ELSE "cancelled"]

\* stop() up to its await of the poll loop; without a poll loop, all of it.
\* One stop() at a time gets past the check of active.
StopBegin ==
    /\ IF ~active
       THEN /\ warned' = "not running"
            /\ result' = Ret("none")
            /\ UNCHANGED prog
       ELSE /\ stopPc = 0
            /\ active' = FALSE
            /\ IF schedTask # 0
               THEN /\ loops' = CancelLoop(schedTask)
                    /\ stopPc' = schedTask
                    /\ UNCHANGED <<execs, result>>
               ELSE /\ execs' = CancelRunning(execs)
                    /\ result' = Ret("none")
                    /\ UNCHANGED <<loops, stopPc>>
            /\ warned' = "none"
            /\ UNCHANGED <<now, store, executions, schedTask, running>>
    /\ UNCHANGED onceDone

\* stop() after the awaited poll loop has ended.
StopResume ==
    /\ stopPc # 0
    /\ loops[stopPc] = "none"
    /\ schedTask' = 0
    /\ execs' = CancelRunning(execs)
    /\ stopPc' = 0
    /\ result' = Ret("none")
    /\ UNCHANGED <<now, store, executions, active, running, loops, warned,
                   onceDone, calls>>

----------------------------------------------------------------------------
(* Scheduler._check_tasks and Scheduler._scheduler_loop *)

\* asyncio.create_task(self._execute_task(task)): a coroutine not yet started.
\* snap is the Task object the coroutine holds.
NewExec(t, kind, pc, snap) ==
    [task |-> t, kind |-> kind, pc |-> pc, snap |-> snap, cancelled |-> FALSE]

\* The for loop without the check of enabled (lines 83-85 left out).
SkippedRunningOnly(task, t, run) == run[t] # 0

\* Lines 83-89: the rows the for loop passes over.
Skipped(task, t, run) == ~task.enabled \/ run[t] # 0

\* Line 102 without the comparison with now: any task with a next_run.
Due_NextRunSet(task) == task.next_run # NoTime

\* Line 102: it is time to run the task.
Due(task) == task.next_run # NoTime /\ task.next_run <= now

\* The body of the for loop for the i-th row of get_all_tasks(), then the rest.
\* tasks is the list as loaded; st, run and ex are the tables so far.
RECURSIVE CheckFrom(_, _, _, _, _)
CheckFrom(i, tasks, st, run, ex) ==
    IF i > Len(TaskOrder) THEN [st |-> st, run |-> run, ex |-> ex, ok |-> TRUE]
    ELSE
      LET t == TaskOrder[i]
          task == tasks[t]
      IN  IF ~IsRow(task) THEN CheckFrom(i + 1, tasks, st, run, ex)
          ELSE IF Skipped(task, t, run) THEN CheckFrom(i + 1, tasks, st, run, ex)
          ELSE IF task.next_run = NoTime /\ ~ValidSchedule(task.schedule)
          THEN CheckFrom(i + 1, tasks, st, run, ex)
          ELSE
            LET task2 == IF task.next_run = NoTime
                         THEN [task EXCEPT !.next_run = NextTrigger(task.schedule, now)]
                         ELSE task
                st2 == IF task.next_run = NoTime THEN save_task(st, t, task2) ELSE st
            IN  IF Due(task2)
                THEN IF FreeExecs(ex) = {}
                     THEN [st |-> st2, run |-> run, ex |-> ex, ok |-> FALSE]
                     ELSE LET e == Min(FreeExecs(ex))
                          IN  CheckFrom(i + 1, tasks, st2,
                                        [run EXCEPT ![t] = e],
                                        [ex EXCEPT ![e] = NewExec(t, "poll", "created", task2)])
                ELSE CheckFrom(i + 1, tasks, st2, run, ex)

check_tasks == CheckFrom(1, store, store, running, execs)

\* The list of get_all_tasks() as the for loop sees it when it passes over
\* every task that has no next_run.
WithoutLacking(tasks) ==
    [t \in TaskIds |-> IF IsRow(tasks[t]) /\ tasks[t].next_run = NoTime
                       THEN NoTask ELSE tasks[t]]

\* A turn of the while loop whose _check_tasks computes no next_run (lines
\* 91-99 left out): a task without next_run is never due.
LoopStep_NextRunNotComputed(l) ==
    /\ loops[l] \in {"created", "sleeping"}
    /\ IF active
       THEN LET after == CheckFrom(1, WithoutLacking(store), store, running, execs)
            IN  /\ after.ok
                /\ store' = after.st
                /\ running' = after.run
                /\ execs' = after.ex
                /\ loops' = [loops EXCEPT ![l] = "sleeping"]
       ELSE /\ loops' = [loops EXCEPT ![l] = "none"]
            /\ UNCHANGED <<store, running, execs>>
    /\ UNCHANGED <<now, executions, active, schedTask, stopPc, warned,
                   onceDone, calls, result>>

\* A turn of a while loop that waits for the executions it dispatched
\* (`await self._execute_task(task)` in place of asyncio.create_task at lines
\* 103-105): no turn while a dispatched execution has not ended.
LoopStep_AwaitsExecutions(l) ==
    /\ loops[l] \in {"created", "sleeping"}
    /\ \A e \in ExecIds : ~Live(e)
    /\ IF active
       THEN /\ check_tasks.ok
            /\ store' = check_tasks.st
            /\ running' = check_tasks.run
            /\ execs' = check_tasks.ex
            /\ loops' = [loops EXCEPT ![l] = "sleeping"]
       ELSE /\ loops' = [loops EXCEPT ![l] = "none"]
            /\ UNCHANGED <<store, running, execs>>
    /\ UNCHANGED <<now, executions, active, schedTask, stopPc, warned,
                   onceDone, calls, result>>

\* One turn of the while loop: the check of active, _check_tasks, the sleep.
\* With active false the loop ends.
LoopStep(l) ==
    /\ loops[l] \in {"created", "sleeping"}
    /\ IF active
       THEN /\ check_tasks.ok
            /\ store' = check_tasks.st
            /\ running' = check_tasks.run
            /\ execs' = check_tasks.ex
            /\ loops' = [loops EXCEPT ![l] = "sleeping"]
       ELSE /\ loops' = [loops EXCEPT ![l] = "none"]
            /\ UNCHANGED <<store, running, execs>>
    /\ UNCHANGED <<now, executions, active, schedTask, stopPc, warned,
                   onceDone, calls, result>>

\* A turn of the while loop with no `except Exception` in _check_tasks (lines
\* 106-107 left out): the exception reaches the except block of
\* _scheduler_loop (lines 71-74) and ends the loop.
CheckTasksFails_Uncaught(l) ==
    /\ loops[l] \in {"created", "sleeping"}
    /\ active
    /\ active' = FALSE
    /\ loops' = [loops EXCEPT ![l] = "none"]
    /\ UNCHANGED <<now, store, executions, schedTask, running, execs, stopPc,
                   warned, onceDone, calls, result>>

\* A turn of the while loop in which the database raises at get_all_tasks
\* (line 79): _check_tasks logs the exception and returns, the loop sleeps.
CheckTasksFails(l) ==
    /\ loops[l] \in {"created", "sleeping"}
    /\ active
    /\ loops' = [loops EXCEPT ![l] = "sleeping"]
    /\ UNCHANGED <<now, store, executions, active, schedTask, running, execs,
                   stopPc, warned, onceDone, calls, result>>

\* The cancelled loop ends at its await (or before its first step).  The event
\* loop runs callbacks in the order they were queued, so the coroutines created
\* by the last poll cycle have all taken their first step by then.
LoopCancelled(l) ==
    /\ loops[l] = "cancelled"
    /\ \A e \in ExecIds : Live(e) => execs[e].pc # "created"
    /\ loops' = [loops EXCEPT ![l] = "none"]
    /\ UNCHANGED <<now, store, executions, active, schedTask, running, execs,
                   stopPc, warned, onceDone, calls, result>>

----------------------------------------------------------------------------
(* Scheduler._execute_task *)

Outcomes == {"completed", "failed"}

\* finally: del self._running_tasks[task.id], whatever handle is stored there.
Release(run, t) == [run EXCEPT ![t] = 0]

\* _execute_task calling the executor without the write of status and
\* last_run before it (lines 115-117 left out).
ExecBegin_Unsaved(e) ==
    /\ Live(e)
    /\ execs[e].pc = "created"
    /\ ~execs[e].cancelled
    /\ execs' = [execs EXCEPT ![e] = [@ EXCEPT !.pc = "executing"]]
    /\ UNCHANGED <<now, store, executions, active, schedTask, running, loops,
                   stopPc, warned, onceDone, calls, result>>

\* Lines 115-120: up to the await of the executor.
ExecBegin(e) ==
    /\ Live(e)
    /\ execs[e].pc = "created"
    /\ ~execs[e].cancelled
    /\ LET t == execs[e].task
           task == [execs[e].snap EXCEPT !.status = "running", !.last_run = now]
       IN  /\ store' = save_task(store, t, task)
           /\ execs' = [execs EXCEPT ![e] = [@ EXCEPT !.pc = "executing", !.snap = task]]
    /\ UNCHANGED <<now, executions, active, schedTask, running, loops, stopPc,
                   warned, onceDone, calls, result>>

\* Lines 124-137 without the new next_run (lines 130-134 left out).
CompletedNextRunKept(task, outcome) ==
    IF task.do_only_once /\ outcome = "completed"
    THEN [task EXCEPT !.enabled = FALSE, !.status = "disabled"]
    ELSE [task EXCEPT !.status = outcome]

\* The task as lines 124-137 leave it when the executor returned `outcome`.
Completed(task, outcome) ==
    IF task.do_only_once /\ outcome = "completed"
    THEN [task EXCEPT !.enabled = FALSE, !.status = "disabled"]
    ELSE [task EXCEPT !.next_run = NextTrigger(task.schedule, now),
                      !.status = outcome]

\* History: a successful one-off run of t has just disabled it.
OnceSucceeded(t, task, outcome) ==
    IF task.do_only_once /\ outcome = "completed"
    THEN onceDone \cup {t} ELSE onceDone

\* Lines 121-139 and 156-159: the executor returned an execution.
ExecComplete(e, outcome) ==
    /\ Live(e)
    /\ execs[e].kind = "poll"
    /\ execs[e].pc = "executing"
    /\ ~execs[e].cancelled
    /\ Len(executions) < MaxLog
    /\ LET t == execs[e].task
           task == execs[e].snap
       IN  /\ executions' = save_execution(executions,
                                TaskExecution(t, task.last_run, now, outcome))
           /\ store' = save_task(store, t, Completed(task, outcome))
           /\ running' = Release(running, t)
           /\ onceDone' = OnceSucceeded(t, task, outcome)
    /\ execs' = [execs EXCEPT ![e] = NoExec]
    /\ UNCHANGED <<now, active, schedTask, loops, stopPc, warned, calls, result>>

\* Lines 141-159: a statement of the try block raised after the executor
\* returned (save_execution at line 121).
ExecError(e) ==
    /\ Live(e)
    /\ execs[e].kind = "poll"
    /\ execs[e].pc = "executing"
    /\ ~execs[e].cancelled
    /\ Len(executions) < MaxLog
    /\ LET t == execs[e].task
           task == [execs[e].snap EXCEPT !.status = "failed"]
       IN  /\ store' = save_task(store, t, task)
           /\ executions' = save_execution(executions,
                                TaskExecution(t, task.last_run, now, "failed"))
           /\ running' = Release(running, t)
    /\ execs' = [execs EXCEPT ![e] = NoExec]
    /\ UNCHANGED <<now, active, schedTask, loops, stopPc, warned, onceDone,
                   calls, result>>

\* Lines 121-159: the execution was saved (line 121) and the save_task that
\* follows (line 128 or 137) raised, the Task object already changed; the
\* except block stores it as failed and saves an execution of its own.
ExecLateError(e, outcome) ==
    /\ Live(e)
    /\ execs[e].kind = "poll"
    /\ execs[e].pc = "executing"
    /\ ~execs[e].cancelled
    /\ Len(executions) + 1 < MaxLog
    /\ LET t == execs[e].task
           task == [Completed(execs[e].snap, outcome) EXCEPT !.status = "failed"]
       IN  /\ store' = save_task(store, t, task)
           /\ executions' = save_execution(
                  save_execution(executions,
                                 TaskExecution(t, task.last_run, now, outcome)),
                  TaskExecution(t, task.last_run, now, "failed"))
           /\ running' = Release(running, t)
    /\ execs' = [execs EXCEPT ![e] = NoExec]
    /\ UNCHANGED <<now, active, schedTask, loops, stopPc, warned, onceDone,
                   calls, result>>

\* CancelledError reaches the coroutine.  Thrown at the await of the executor it
\* passes `except Exception` and runs the finally block; thrown into a coroutine
\* that has not started it ends it before the try statement is entered, and
\* the handle of the finished task stays in _running_tasks.
ExecCancelled(e) ==
    /\ Live(e)
    /\ execs[e].cancelled
    /\ LET t == execs[e].task
       IN  running' = IF execs[e].pc = "executing" THEN Release(running, t)
                      ELSE IF running[t] = e THEN [running EXCEPT ![t] = DoneHandle]
                      ELSE running
    /\ execs' = [execs EXCEPT ![e] = NoExec]
    /\ UNCHANGED <<now, store, executions, active, schedTask, loops, stopPc,
                   warned, onceDone, calls, result>>

----------------------------------------------------------------------------
(* Scheduler.add_task *)

\* add_task saving the task before it looks at the schedule (line 171 ahead of
\* lines 165-169).
add_task_SavedFirst(t, schedule, once) ==
    /\ store[t] = NoTask
    /\ store' = save_task(store, t,
                    [NewTask(schedule, once) EXCEPT
                        !.next_run = IF ValidSchedule(schedule)
                                     THEN NextTrigger(schedule, now)
                                     ELSE NoTime])
    /\ result' = IF ValidSchedule(schedule)
                 THEN ReturnedTask(t, store'[t]) ELSE Ret("ValueError")
    /\ warned' = "none"
    /\ UNCHANGED <<now, executions, active, schedTask, running, loops, execs,
                   stopPc, onceDone>>

\* The server builds the Task, whose id is a fresh uuid.
add_task(t, schedule, once) ==
    /\ store[t] = NoTask
    /\ IF ValidSchedule(schedule)
       THEN LET task == [NewTask(schedule, once) EXCEPT
                            !.next_run = NextTrigger(schedule, now)]
            IN  /\ store' = save_task(store, t, task)
                /\ result' = ReturnedTask(t, task)
       ELSE /\ UNCHANGED store
            /\ result' = Ret("ValueError")
    /\ warned' = "none"
    /\ UNCHANGED <<now, executions, active, schedTask, running, loops, execs,
                   stopPc, onceDone>>

----------------------------------------------------------------------------
(* Scheduler.update_task, enable_task, disable_task *)

\* The keyword arguments the callers pass: one field through the server's
\* update_task tool, enabled and status together from enable_task/disable_task.
Kwargs ==
    {[schedule |-> s] : s \in Schedules \cup {InvalidSchedule}}
    \cup {[do_only_once |-> b] : b \in BOOLEAN}
    \cup {[enabled |-> b] : b \in BOOLEAN}

\* setattr(task, key, value) for every keyword argument.
SetAttrs(task, kw) ==
    [f \in DOMAIN task |-> IF f \in DOMAIN kw THEN kw[f] ELSE task[f]]

\* update_task without the new next_run (lines 186-193 left out).
update_task_NextRunKept(t, kw) ==
    /\ IF ~IsRow(get_task(t))
       THEN /\ result' = Ret("none")
            /\ UNCHANGED <<store, onceDone>>
       ELSE LET task == [SetAttrs(get_task(t), kw) EXCEPT !.updated_at = now]
            IN  /\ store' = save_task(store, t, task)
                /\ result' = ReturnedTask(t, task)
                /\ onceDone' = onceDone \ {t}
    /\ warned' = "none"
    /\ UNCHANGED <<now, executions, active, schedTask, running, loops, execs,
                   stopPc>>

update_task(t, kw) ==
    /\ IF ~IsRow(get_task(t))
       THEN /\ result' = Ret("none")
            /\ UNCHANGED <<store, onceDone>>
       ELSE LET task == SetAttrs(get_task(t), kw)
            IN  IF "schedule" \in DOMAIN kw /\ ~ValidSchedule(task.schedule)
                THEN /\ result' = Ret("ValueError")
                     /\ UNCHANGED <<store, onceDone>>
                ELSE LET task2 == IF "schedule" \in DOMAIN kw
                                  THEN [task EXCEPT !.next_run = NextTrigger(task.schedule, now)]
                                  ELSE task
                         task3 == [task2 EXCEPT !.updated_at = now]
                     IN  /\ store' = save_task(store, t, task3)
                         /\ result' = ReturnedTask(t, task3)
                         /\ onceDone' = onceDone \ {t}
    /\ warned' = "none"
    /\ UNCHANGED <<now, executions, active, schedTask, running, loops, execs,
                   stopPc>>

\* enable_task passing enabled alone, as the server's update_task tool does.
enable_task_EnabledOnly(t) ==
    update_task(t, [enabled |-> TRUE])

enable_task(t) ==
    update_task(t, [enabled |-> TRUE, status |-> "pending"])

disable_task(t) ==
    update_task(t, [enabled |-> FALSE, status |-> "disabled"])

----------------------------------------------------------------------------
(* Scheduler.get_task *)

GetTask(t) ==
    /\ result' = IF IsRow(get_task(t)) THEN ReturnedTask(t, get_task(t))
                 ELSE Ret("none")
    /\ warned' = "none"
    /\ UNCHANGED <<prog, onceDone>>

----------------------------------------------------------------------------
(* Scheduler.delete_task *)

\* delete_task removing the execution records of the task with it
\* (ON DELETE CASCADE).
DeleteTask_Cascading(t) ==
    /\ IF running[t] # 0
       THEN /\ execs' = [e \in ExecIds |->
                           IF e = running[t] /\ Live(e)
                           THEN [execs[e] EXCEPT !.cancelled = TRUE]
                           ELSE execs[e]]
            /\ running' = Release(running, t)
       ELSE UNCHANGED <<execs, running>>
    /\ store' = delete_task(store, t)
    /\ executions' = SelectSeq(executions, LAMBDA rec : rec.task_id # t)
    /\ result' = Ret(IF IsRow(store[t]) THEN "true" ELSE "false")
    /\ warned' = "none"
    /\ UNCHANGED <<now, active, schedTask, loops, stopPc, onceDone>>

\* delete_task returning True whether or not a row was removed.
DeleteTask_AlwaysTrue(t) ==
    /\ IF running[t] # 0
       THEN /\ execs' = [e \in ExecIds |->
                           IF e = running[t] /\ Live(e)
                           THEN [execs[e] EXCEPT !.cancelled = TRUE]
                           ELSE execs[e]]
            /\ running' = Release(running, t)
       ELSE UNCHANGED <<execs, running>>
    /\ store' = delete_task(store, t)
    /\ result' = Ret("true")
    /\ warned' = "none"
    /\ UNCHANGED <<now, executions, active, schedTask, loops, stopPc, onceDone>>

DeleteTask(t) ==
    /\ IF running[t] # 0
       THEN /\ execs' = [e \in ExecIds |->
                           IF e = running[t] /\ Live(e)
                           THEN [execs[e] EXCEPT !.cancelled = TRUE]
                           ELSE execs[e]]
            /\ running' = Release(running, t)
       ELSE UNCHANGED <<execs, running>>
    /\ store' = delete_task(store, t)
    /\ result' = Ret(IF IsRow(store[t]) THEN "true" ELSE "false")
    /\ warned' = "none"
    /\ UNCHANGED <<now, executions, active, schedTask, loops, stopPc, onceDone>>

----------------------------------------------------------------------------
(* Scheduler.run_task_now *)

\* run_task_now without the check of _running_tasks (lines 238-241 left out).
RunTaskNowBegin_Unchecked(t) ==
    /\ IF ~IsRow(get_task(t))
       THEN /\ warned' = "none"
            /\ result' = Ret("none")
            /\ UNCHANGED <<store, execs>>
       ELSE /\ FreeExecs(execs) # {}
            /\ LET task == [get_task(t) EXCEPT !.status = "running",
                                               !.last_run = now]
               IN  /\ store' = save_task(store, t, task)
                   /\ execs' = [execs EXCEPT ![Min(FreeExecs(execs))] =
                                    NewExec(t, "manual", "executing", task)]
            /\ warned' = "none"
            /\ UNCHANGED result
    /\ UNCHANGED <<now, executions, active, schedTask, running, loops, stopPc,
                   onceDone>>

\* Lines 234-248: up to the await of the executor.
RunTaskNowBegin(t) ==
    /\ IF ~IsRow(get_task(t))
       THEN /\ warned' = "none"
            /\ result' = Ret("none")
            /\ UNCHANGED <<store, execs>>
       ELSE IF running[t] # 0
       THEN /\ warned' = "task already running"
            /\ result' = Ret("none")
            /\ UNCHANGED <<store, execs>>
       ELSE /\ FreeExecs(execs) # {}
            /\ LET task == [get_task(t) EXCEPT !.status = "running",
                                               !.last_run = now]
               IN  /\ store' = save_task(store, t, task)
                   /\ execs' = [execs EXCEPT ![Min(FreeExecs(execs))] =
                                    NewExec(t, "manual", "executing", task)]
            /\ warned' = "none"
            /\ UNCHANGED result
    /\ UNCHANGED <<now, executions, active, schedTask, running, loops, stopPc,
                   onceDone>>

\* Lines 252-258 without the new status (line 258 left out).
RanNow_StatusKept(task, outcome) ==
    IF task.do_only_once /\ outcome = "completed"
    THEN [task EXCEPT !.enabled = FALSE, !.status = "disabled"]
    ELSE task

\* The task as lines 252-258 leave it when the executor returned `outcome`.
RanNow(task, outcome) ==
    IF task.do_only_once /\ outcome = "completed"
    THEN [task EXCEPT !.enabled = FALSE, !.status = "disabled"]
    ELSE [task EXCEPT !.status = outcome]

\* Lines 249-262: the executor returned an execution.
RunTaskNowEnd(e, outcome) ==
    /\ Live(e)
    /\ execs[e].kind = "manual"
    /\ Len(executions) < MaxLog
    /\ LET t == execs[e].task
           task == execs[e].snap
       IN  /\ executions' = save_execution(executions,
                                TaskExecution(t, task.last_run, now, outcome))
           /\ store' = save_task(store, t, RanNow(task, outcome))
           /\ onceDone' = OnceSucceeded(t, task, outcome)
           /\ result' = ReturnedExecution(
                            TaskExecution(t, task.last_run, now, outcome))
    /\ execs' = [execs EXCEPT ![e] = NoExec]
    /\ UNCHANGED <<now, active, schedTask, running, loops, stopPc, warned,
                   calls>>

----------------------------------------------------------------------------
(* The system *)

\* A call of a public operation by the server or a test.
Call(Op) ==
    /\ calls < MaxCalls
    /\ calls' = calls + 1
    /\ Op

Next ==
    \/ Tick
    \/ Call(Start)
    \/ Call(StopBegin)
    \/ StopResume
    \/ \E l \in LoopIds : LoopStep(l)
    \/ \E l \in LoopIds : CheckTasksFails(l)
    \/ \E l \in LoopIds : LoopCancelled(l)
    \/ \E e \in ExecIds : ExecBegin(e)
    \/ \E e \in ExecIds, o \in Outcomes : ExecComplete(e, o)
    \/ \E e \in ExecIds : ExecError(e)
    \/ \E e \in ExecIds, o \in Outcomes : ExecLateError(e, o)
    \/ \E e \in ExecIds : ExecCancelled(e)
    \/ \E t \in NewIds, s \in Schedules \cup {InvalidSchedule}, b \in BOOLEAN :
          Call(add_task(t, s, b))
    \/ \E t \in TaskIds, kw \in Kwargs : Call(update_task(t, kw))
    \/ \E t \in TaskIds : Call(enable_task(t))
    \/ \E t \in TaskIds : Call(disable_task(t))
    \/ \E t \in TaskIds : Call(GetTask(t))
    \/ \E t \in TaskIds : Call(DeleteTask(t))
    \/ \E t \in TaskIds : Call(RunTaskNowBegin(t))
    \/ \E e \in ExecIds, o \in Outcomes : RunTaskNowEnd(e, o)

Spec == Init /\ [][Next]_vars

\* The life cycle and the poll cycle alone: start() and stop() called in any
\* order and at any await of each other, over a store that add_task fills
\* and whose schedules update_task changes.
LifeCall(Op) ==
    /\ calls < MaxLifeCalls
    /\ calls' = calls + 1
    /\ Op

NextLife ==
    \/ Tick
    \/ LifeCall(Start)
    \/ LifeCall(StopBegin)
    \/ StopResume
    \/ \E l \in LoopIds : LoopStep(l)
    \/ \E l \in LoopIds : CheckTasksFails(l)
    \/ \E l \in LoopIds : LoopCancelled(l)
    \/ \E e \in ExecIds : ExecBegin(e)
    \/ \E e \in ExecIds, o \in Outcomes : ExecComplete(e, o)
    \/ \E e \in ExecIds : ExecError(e)
    \/ \E e \in ExecIds, o \in Outcomes : ExecLateError(e, o)
    \/ \E e \in ExecIds : ExecCancelled(e)
    \/ \E t \in NewIds, s \in Schedules, b \in BOOLEAN :
          LifeCall(add_task(t, s, b))
    \/ \E t \in NewIds, s \in Schedules :
          LifeCall(update_task(t, [schedule |-> s]))

SpecLife == Init /\ [][NextLife]_vars

\* The operations on stored tasks alone, with the scheduler never started:
\* tasks are added, updated, enabled, disabled and run by run_task_now.
NextStore ==
    \/ Tick
    \/ \E t \in NewIds, s \in Schedules \cup {InvalidSchedule}, b \in BOOLEAN :
          Call(add_task(t, s, b))
    \/ \E t \in TaskIds, kw \in Kwargs : Call(update_task(t, kw))
    \/ \E t \in TaskIds : Call(enable_task(t))
    \/ \E t \in TaskIds : Call(disable_task(t))
    \/ \E t \in TaskIds : Call(RunTaskNowBegin(t))
    \/ \E e \in ExecIds, o \in Outcomes : RunTaskNowEnd(e, o)

SpecStore == Init /\ [][NextStore]_vars

----------------------------------------------------------------------------
(* executor.py: Executor.execute_task and the handlers of the task types *)

TaskTypes == {"shell_command", "api_call", "ai", "reminder"}

\* Python's None among the strings.
None == "None"

\* What a handler gives execute_task: the pair (output, error) it returns, or
\* the exception it raises, with str(e).
Returns(output, error) == [raised |-> FALSE, output |-> output, error |-> error]
Raises(message) == [raised |-> TRUE, message |-> message]

\* `if error:`
Truthy(v) == v # None /\ v # ""

\* execute_task with no `except Exception` around the handlers (lines 89-92
\* left out).
execute_task_Uncaught(t, h, end) ==
    IF h.raised THEN [raised |-> TRUE]
    ELSE [raised |-> FALSE,
          execution |->
            IF Truthy(h.error)
            THEN [task_id |-> t, status |-> "failed", output |-> None,
                  error |-> h.error, end_time |-> end]
            ELSE [task_id |-> t, status |-> "completed", output |-> h.output,
                  error |-> None, end_time |-> end]]

\* Lines 38-95: the TaskExecution made at line 38, as the handler's outcome h
\* and line 94 leave it; execute_task returns it.
execute_task(t, h, end) ==
    LET execution == [task_id |-> t, status |-> "running", output |-> None,
                      error |-> None, end_time |-> NoTime]
        done == IF h.raised
                THEN [execution EXCEPT !.status = "failed", !.error = h.message]
                ELSE IF Truthy(h.error)
                THEN [execution EXCEPT !.status = "failed", !.error = h.error]
                ELSE [execution EXCEPT !.status = "completed",
                                       !.output = h.output]
    IN  [raised |-> FALSE, execution |-> [done EXCEPT !.end_time = end]]

\* The handler found its input missing (lines 99-100, 170-171, 207-211,
\* 231-232) and returned at once.
NothingSpecified == Returns(None, "nothing specified")

\* What a handler in the given phase can end with by itself.
HandlerOutcomes(type, phase) ==
    IF type = "shell_command"
    THEN {Returns("stdout", None), Returns("", None),
          Returns(None, "command failed")}
    ELSE IF type = "api_call"
    THEN {Returns("body", None), Returns(None, "API call failed"),
          Raises("error"), Raises("")}
    ELSE IF type = "ai"
    THEN {Returns("content", None), Returns(None, None),
          Returns(None, "AI task failed")}
    ELSE IF phase = "command"
    THEN {Returns("displayed", None), Returns(None, "notification failed")}
    ELSE {}

\* The handler's outcome when asyncio.TimeoutError ends its wait.  A timed out
\* wait gives no output.
TimedOut_NoError(type) == Returns(None, None)

\* Lines 158-163 (and 385-387 around them for a reminder), lines 202-203.
TimedOut(type) ==
    IF type = "api_call" THEN Returns(None, "timed out")
    ELSE IF type = "reminder" THEN Returns(None, "notification failed: timed out")
    ELSE Returns(None, "timed out")

\* The coroutine c inside a handler: `entered` is when execute_task was
\* called, `started` when the wait that the timeout bounds began.
WithHandler(c, type, phase, entered, started) ==
    [task |-> c.task, kind |-> c.kind, pc |-> c.pc, snap |-> c.snap,
     cancelled |-> c.cancelled,
     type |-> type, phase |-> phase, entered |-> entered, started |-> started]

\* The coroutine c with execute_task over: what the handler gave, whether the
\* process was killed, and what execute_task gives its caller.
WithExecution(c, type, h, killed) ==
    [task |-> c.task, kind |-> c.kind, pc |-> c.pc, snap |-> c.snap,
     cancelled |-> c.cancelled,
     type |-> type, handler |-> h, killed |-> killed,
     returned |-> execute_task(c.task, h, now)]

InHandler(e) == Live(e) /\ "phase" \in DOMAIN execs[e]
HasReturned(e) == Live(e) /\ "returned" \in DOMAIN execs[e]

\* The waits under asyncio.wait_for (line 147) or a ClientTimeout (line 191).
Timed(c) ==
    \/ c.phase = "running" /\ c.type \in {"shell_command", "api_call"}
    \/ c.phase = "command"

Deadline(c) == c.started + ExecutionTimeout

\* await self.executor.execute_task(task), up to the handler's first await.
XStart(e, type, hasInput) ==
    /\ Live(e)
    /\ execs[e].pc = "executing"
    /\ ~InHandler(e) /\ ~HasReturned(e)
    /\ execs' = [execs EXCEPT ![e] =
          IF ~hasInput
          THEN WithExecution(execs[e], type, NothingSpecified, FALSE)
          ELSE WithHandler(execs[e], type,
                           IF type = "reminder" THEN "probing" ELSE "running",
                           now, now)]
    /\ UNCHANGED <<now, store, executions, active, schedTask, running, loops,
                   stopPc, warned, onceDone, calls, result>>

\* Lines 350-381: the reminder handler has looked for a notification command;
\* nothing bounds these waits.
XProbed(e, found) ==
    /\ InHandler(e)
    /\ execs[e].phase = "probing"
    /\ execs' = [execs EXCEPT ![e] =
          IF found
          THEN WithHandler(execs[e], "reminder", "command", execs[e].entered, now)
          ELSE WithExecution(execs[e], "reminder",
                             Returns(None, "no notification command"), FALSE)]
    /\ UNCHANGED <<now, store, executions, active, schedTask, running, loops,
                   stopPc, warned, onceDone, calls, result>>

\* The handler ends by itself, and execute_task with it.
XHandlerEnds(e, h) ==
    /\ InHandler(e)
    /\ h \in HandlerOutcomes(execs[e].type, execs[e].phase)
    /\ execs' = [execs EXCEPT ![e] =
          WithExecution(execs[e], execs[e].type, h, FALSE)]
    /\ UNCHANGED <<now, store, executions, active, schedTask, running, loops,
                   stopPc, warned, onceDone, calls, result>>

\* The timeout ends the wait: a process is killed (line 160).
XTimeout(e) ==
    /\ InHandler(e)
    /\ Timed(execs[e])
    /\ now >= Deadline(execs[e])
    /\ execs' = [execs EXCEPT ![e] =
          WithExecution(execs[e], execs[e].type, TimedOut(execs[e].type),
                        execs[e].type # "api_call")]
    /\ UNCHANGED <<now, store, executions, active, schedTask, running, loops,
                   stopPc, warned, onceDone, calls, result>>

\* _execute_task goes on with the execution it was given (line 120).
XReturn(e) ==
    /\ HasReturned(e)
    /\ ~execs[e].returned.raised
    /\ ExecComplete(e, execs[e].returned.execution.status)

\* The clock, which a bounded wait does not let past its deadline.
XTick ==
    /\ now < MaxExecTime
    /\ \A e \in ExecIds :
          (InHandler(e) /\ Timed(execs[e])) => now < Deadline(execs[e])
    /\ now' = now + 1
    /\ UNCHANGED <<store, executions, active, schedTask, running, loops,
                   execs, stopPc, warned, onceDone, calls, result>>

NextExec ==
    \/ XTick
    \/ Call(Start)
    \/ \E t \in NewIds, s \in Schedules, b \in BOOLEAN : Call(add_task(t, s, b))
    \/ \E l \in LoopIds : LoopStep(l)
    \/ \E e \in ExecIds : ExecBegin(e)
    \/ \E e \in ExecIds, type \in TaskTypes, b \in BOOLEAN : XStart(e, type, b)
    \/ \E e \in ExecIds, b \in BOOLEAN : XProbed(e, b)
    \/ \E e \in ExecIds, type \in TaskTypes, ph \in {"running", "command"} :
          \E h \in HandlerOutcomes(type, ph) : XHandlerEnds(e, h)
    \/ \E e \in ExecIds : XTimeout(e)
    \/ \E e \in ExecIds : XReturn(e)

SpecExec == Init /\ [][NextExec]_vars

----------------------------------------------------------------------------
(* What the properties speak of *)

\* The executions of task t that are at the executor and not cancelled.
InProgress(t) ==
    {e \in ExecIds : Live(e) /\ execs[e].task = t
                     /\ execs[e].pc = "executing" /\ ~execs[e].cancelled}

\* This step creates coroutine e of the given kind for task t.
Dispatches(e, kind, t) ==
    /\ ~Live(e)
    /\ execs'[e] # NoExec
    /\ execs'[e].kind = kind
    /\ execs'[e].task = t

\* This step is the end of coroutine e with the result written (it was not
\* cancelled).
Finishes(e) ==
    /\ Live(e)
    /\ ~execs[e].cancelled
    /\ execs'[e] = NoExec

----------------------------------------------------------------------------
(* C1: in every reachable state every task has at most one execution in    *)
(* progress, whether dispatched by the poll cycle or started by            *)
(* run_task_now.                                                           *)
C1_AtMostOneExecution ==
    \A t \in TaskIds : Cardinality(InProgress(t)) <= 1

\* The executions of task t that a poll cycle dispatched and nothing cancelled.
PollExecs(t) ==
    {e \in ExecIds : Live(e) /\ execs[e].task = t /\ execs[e].kind = "poll"
                     /\ ~execs[e].cancelled}

(* C2: a poll cycle does not dispatch a task while an execution that an    *)
(* earlier poll cycle dispatched for it is still in progress.              *)
C2_NoSecondDispatch ==
    [][\A t \in TaskIds :
          (\E e \in ExecIds : Dispatches(e, "poll", t)) => PollExecs(t) = {}]_vars

(* C3: once a successful run of a do_only_once task has disabled it, the   *)
(* stored task stays enabled=false until enable_task or update_task is     *)
(* called on it.                                                           *)
C3_OneShotStaysDisabled ==
    \A t \in onceDone : IsRow(store[t]) => ~store[t].enabled

\* This step ends, as failed, execution e of a do_only_once task that was
\* enabled when e started and is enabled in the store.
FailedOnce(e) ==
    /\ Live(e)
    /\ execs[e].snap.do_only_once
    /\ execs[e].snap.enabled
    /\ IsRow(store[execs[e].task])
    /\ store[execs[e].task].enabled
    /\ \/ ExecComplete(e, "failed")
       \/ RunTaskNowEnd(e, "failed")

\* After this step task t is stored enabled, its next_run the next trigger of
\* its schedule after the current time.
AdvancedAndEnabled(t) ==
    /\ IsRow(store'[t])
    /\ store'[t].enabled
    /\ store'[t].next_run = NextTrigger(store'[t].schedule, now)

(* C4: when an execution of a do_only_once task finishes as failed, poll   *)
(* dispatched or started by run_task_now, the stored task is enabled and   *)
(* its next_run is the next trigger of its schedule after that time.       *)
C4_FailedOnceAdvanced ==
    [][\A e \in ExecIds : FailedOnce(e) => AdvancedAndEnabled(execs[e].task)]_vars

(* C4, amended: when a poll-dispatched execution of a do_only_once task    *)
(* finishes as failed, the stored task is enabled and its next_run is the  *)
(* next trigger of its schedule after that time; a failed run_task_now     *)
(* leaves enabled and next_run as they were when it started.               *)
C4_PollFailedOnceAdvanced ==
    [][\A e \in ExecIds :
          /\ (Live(e) /\ execs[e].snap.do_only_once /\ ExecComplete(e, "failed"))
                => AdvancedAndEnabled(execs[e].task)
          /\ (Live(e) /\ execs[e].snap.do_only_once /\ RunTaskNowEnd(e, "failed"))
                => /\ IsRow(store'[execs[e].task])
                   /\ store'[execs[e].task].enabled = execs[e].snap.enabled
                   /\ store'[execs[e].task].next_run = execs[e].snap.next_run
      ]_vars

\* A one-off task that only start() and add_task have touched has failed, and
\* its next_run lies ahead.
C4_Witness ==
    /\ calls = 2
    /\ active
    /\ \E t \in TaskIds :
          /\ IsRow(store[t])
          /\ store[t].do_only_once
          /\ store[t].status = "failed"
          /\ store[t].enabled
          /\ store[t].next_run > now
          /\ running[t] = 0

(* C5: the poll cycle dispatches only tasks whose stored enabled flag is   *)
(* true; run_task_now on a stored task that is disabled and not in the     *)
(* in-flight set starts an execution of it.                                *)
C5_DisabledNotDispatched ==
    [][\A t \in TaskIds :
          /\ (\E e \in ExecIds : Dispatches(e, "poll", t))
                => (IsRow(store[t]) /\ store[t].enabled)
          /\ (IsRow(store[t]) /\ ~store[t].enabled /\ running[t] = 0
              /\ RunTaskNowBegin(t))
                => \E e \in ExecIds :
                      Dispatches(e, "manual", t) /\ execs'[e].pc = "executing"
      ]_vars

\* run_task_now is executing a task that was disabled when it started, and the
\* poll loop has dispatched nothing for it.
C5_Witness ==
    \E e \in ExecIds :
        /\ Live(e)
        /\ execs[e].kind = "manual"
        /\ ~execs[e].snap.enabled
        /\ active
        /\ store[execs[e].task].next_run <= now
        /\ \E l \in LoopIds : loops[l] = "sleeping"

(* C6: the write that ends an execution leaves schedule, do_only_once and  *)
(* enabled of the stored task as update_task, enable_task or disable_task  *)
(* last set them (but for enabled=false set by a successful one-off run).  *)
C6_CompletionKeepsUpdates ==
    [][\A e \in ExecIds :
          (Finishes(e) /\ IsRow(store[execs[e].task]))
          => LET t == execs[e].task
             IN  /\ IsRow(store'[t])
                 /\ store'[t].schedule = store[t].schedule
                 /\ store'[t].do_only_once = store[t].do_only_once
                 /\ store'[t].enabled # store[t].enabled
                       => (t \in onceDone \/ t \in onceDone')
      ]_vars

(* C7: once stop() has returned and no execution is left, no stored task   *)
(* has status=running.                                                     *)
C7_NoRunningAfterStop ==
    (/\ ~active
     /\ stopPc = 0
     /\ \A l \in LoopIds : loops[l] = "none"
     /\ \A e \in ExecIds : ~Live(e))
    => \A t \in TaskIds : IsRow(store[t]) => store[t].status # "running"

\* This step is the return of a stop() that found the scheduler active.
StopReturns ==
    \/ StopResume
    \/ (active /\ schedTask = 0 /\ StopBegin)

(* C8: when stop() returns on an active scheduler the poll loop has exited *)
(* and every execution in progress has been cancelled, poll dispatched or  *)
(* started by run_task_now.                                                *)
C8_StopCancelsAll ==
    [][StopReturns =>
          /\ \A l \in LoopIds : loops'[l] = "none"
          /\ \A e \in ExecIds : execs'[e] # NoExec => execs'[e].cancelled]_vars

(* C9: after delete_task(id), get_task(id) returns not-found in every      *)
(* later state: no finishing execution writes the task back.               *)
C9_DeletedStaysDeleted ==
    [][\A t \in TaskIds : store[t] = Deleted => store'[t] = Deleted]_vars

(* C10: start() on an active scheduler and stop() on an inactive one       *)
(* change nothing: not the active flag, the poll loops, the in-flight set, *)
(* the coroutines or the store.                                            *)
C10_Idempotent ==
    [][/\ (active /\ Start) => UNCHANGED prog
       /\ (~active /\ StopBegin) => UNCHANGED prog]_vars

\* start() was called on the active scheduler: one poll loop, and it is the
\* one stop() would cancel.
C10_Witness ==
    /\ warned = "already running"
    /\ active
    /\ schedTask # 0
    /\ Cardinality({l \in LoopIds : loops[l] # "none"}) = 1

\* The poll loops that will run _check_tasks again unless something stops
\* them: created or sleeping, and not cancelled.
PollingLoops == {l \in LoopIds : loops[l] \in {"created", "sleeping"}}

(* C11: under any interleaving of start() and stop(), a start() during the *)
(* await of a stop() included, at most one poll loop is alive.             *)
C11_OnePollLoop ==
    Cardinality(PollingLoops) <= 1

(* C12: add_task with a schedule that cannot be parsed raises and leaves   *)
(* the store unchanged; with a valid schedule it stores the task, with a   *)
(* next_run that is not null, and returns it.                              *)
C12_AddTask ==
    [][\A t \in NewIds, s \in Schedules \cup {InvalidSchedule}, b \in BOOLEAN :
          add_task(t, s, b) =>
             IF ValidSchedule(s)
             THEN /\ IsRow(store'[t])
                  /\ store'[t].schedule = s
                  /\ store'[t].do_only_once = b
                  /\ store'[t].next_run # NoTime
                  /\ result' = ReturnedTask(t, store'[t])
                  /\ \A u \in TaskIds \ {t} : store'[u] = store[u]
             ELSE /\ store' = store
                  /\ result' = Ret("ValueError")]_vars

\* The first call was add_task with a schedule that cannot be parsed: it has
\* raised, and the store holds no row.
C12_Witness ==
    /\ result = Ret("ValueError")
    /\ calls = 1
    /\ \A t \in TaskIds : store[t] = NoTask

\* Every set of keyword arguments update_task is called with.
AllKwargs ==
    Kwargs \cup {[enabled |-> TRUE, status |-> "pending"],
                 [enabled |-> FALSE, status |-> "disabled"]}

(* C13: update_task on an existing task: with a valid new schedule the     *)
(* stored next_run becomes the next trigger of that schedule after the     *)
(* time of the update; with an invalid one the call raises and the stored  *)
(* task is unchanged in every field; without a schedule among the fields   *)
(* next_run is unchanged; every successful update sets updated_at.         *)
C13_UpdateTask ==
    [][\A t \in TaskIds, kw \in AllKwargs :
          (IsRow(store[t]) /\ update_task(t, kw)) =>
             IF "schedule" \in DOMAIN kw /\ ~ValidSchedule(kw.schedule)
             THEN /\ store' = store
                  /\ result' = Ret("ValueError")
             ELSE /\ IsRow(store'[t])
                  /\ \A f \in DOMAIN kw : store'[t][f] = kw[f]
                  /\ store'[t].updated_at = now
                  /\ store'[t].next_run =
                        IF "schedule" \in DOMAIN kw
                        THEN NextTrigger(kw.schedule, now)
                        ELSE store[t].next_run
                  /\ result' = ReturnedTask(t, store'[t])]_vars

\* The second call was update_task with a schedule that cannot be parsed, on
\* the task the first call added: it has raised, and the row is there.
C13_Witness ==
    /\ calls = 2
    /\ result = Ret("ValueError")
    /\ \E t \in TaskIds : IsRow(store[t]) /\ ValidSchedule(store[t].schedule)

(* C14: get_task, update_task, enable_task, disable_task and run_task_now  *)
(* on an unknown task id, and run_task_now on a task that is in the        *)
(* in-flight set, return None without raising and change nothing: no task  *)
(* row, no execution record, not the in-flight set.                        *)
C14_NoResultNoChange ==
    [][\A t \in TaskIds :
          /\ (/\ ~IsRow(store[t])
              /\ \/ GetTask(t)
                 \/ \E kw \in Kwargs : update_task(t, kw)
                 \/ enable_task(t)
                 \/ disable_task(t)
                 \/ RunTaskNowBegin(t))
                => (result' = Ret("none") /\ UNCHANGED prog)
          /\ (IsRow(store[t]) /\ running[t] # 0 /\ RunTaskNowBegin(t))
                => (result' = Ret("none") /\ UNCHANGED prog)]_vars

\* run_task_now has found the task in the in-flight set, its poll-dispatched
\* execution at the executor, and has started nothing.
C14_Witness ==
    /\ warned = "task already running"
    /\ result = Ret("none")
    /\ \E t \in TaskIds :
          /\ IsRow(store[t])
          /\ running[t] \in ExecIds
          /\ execs[running[t]] # NoExec
          /\ execs[running[t]].pc = "executing"
          /\ ExecsOf(t) = {running[t]}

(* C15: run_task_now on a stored task that is not in the in-flight set     *)
(* starts its execution at once, whatever its next_run and its enabled     *)
(* flag; when the executor returns, run_task_now returns that execution,   *)
(* has appended it to the log, and the stored task has the status of the   *)
(* execution, or disabled and enabled=false after a successful run of a    *)
(* do_only_once task.                                                      *)
C15_RunTaskNow ==
    [][/\ \A t \in TaskIds :
             (IsRow(store[t]) /\ running[t] = 0 /\ RunTaskNowBegin(t))
             => /\ \E e \in ExecIds :
                      Dispatches(e, "manual", t) /\ execs'[e].pc = "executing"
                /\ store'[t].status = "running"
                /\ store'[t].last_run = now
       /\ \A e \in ExecIds, o \in Outcomes :
             RunTaskNowEnd(e, o)
             => LET t == execs[e].task
                    rec == TaskExecution(t, execs[e].snap.last_run, now, o)
                IN  /\ result' = ReturnedExecution(rec)
                    /\ executions' = Append(executions, rec)
                    /\ IsRow(store'[t])
                    /\ IF execs[e].snap.do_only_once /\ o = "completed"
                       THEN store'[t].status = "disabled" /\ ~store'[t].enabled
                       ELSE store'[t].status = o]_vars

\* run_task_now has run a do_only_once task ahead of its next_run and returned
\* the completed execution: one record in the log, the task stored disabled.
C15_Witness ==
    \E t \in TaskIds :
        /\ result = ReturnedExecution(TaskExecution(t, now, now, "completed"))
        /\ Len(executions) = 1
        /\ IsRow(store[t])
        /\ store[t].status = "disabled"
        /\ ~store[t].enabled
        /\ store[t].next_run > now
        /\ t \in onceDone

\* The handler whose outcome h is gave no error.
Succeeded(h) == ~h.raised /\ h.error = None

C17_ShellTimeout ==
    /\ [](\A e \in ExecIds :
            (InHandler(e) /\ execs[e].type = "shell_command")
                => now <= Deadline(execs[e]))
    /\ [][\A e \in ExecIds :
            /\ (InHandler(e) /\ execs[e].type = "shell_command" /\ XTimeout(e))
                  => /\ execs'[e].killed
                     /\ execs'[e].returned.execution.status = "failed"
                     /\ execs'[e].returned.execution.error = "timed out"
                     /\ execs'[e].returned.execution.end_time = now
            /\ (/\ HasReturned(e)
                /\ execs[e].type = "shell_command"
                /\ execs[e].killed
                /\ XReturn(e))
                  => /\ running'[execs[e].task] = 0
                     /\ store'[execs[e].task].status = "failed"
                     /\ executions' = Append(executions,
                            TaskExecution(execs[e].task,
                                          execs[e].snap.last_run, now, "failed"))
          ]_vars

\* A poll-dispatched shell command has been killed at the timeout; its task
\* is still in the in-flight set.
C17_Witness ==
    \E e \in ExecIds :
        /\ HasReturned(e)
        /\ execs[e].type = "shell_command"
        /\ execs[e].killed
        /\ execs[e].kind = "poll"
        /\ running[execs[e].task] = e
        /\ store[execs[e].task].status = "running"

(* C18: the execution timeout bounds every execution, of every task type:  *)
(* no handler is still running later than the timeout after execute_task   *)
(* was called.                                                             *)
C18_TimeoutBoundsAll ==
    \A e \in ExecIds :
        InHandler(e) => now <= execs[e].entered + ExecutionTimeout

(* C19: there is no automatic retry: a task stored as failed after a       *)
(* poll-dispatched execution, whatever made it fail, is not dispatched by  *)
(* the poll cycle before the next trigger of its schedule after that       *)
(* execution (here: after its start, which is no later than its end).      *)
C19_NoAutomaticRetry ==
    [][\A t \in TaskIds :
          (/\ IsRow(store[t])
           /\ store[t].status = "failed"
           /\ \E e \in ExecIds : Dispatches(e, "poll", t))
          => now >= NextTrigger(store[t].schedule, store[t].last_run)]_vars

\* The store with the next_run of task t missing.
LackingNextRun(t) == [store EXCEPT ![t].next_run = NoTime]

(* C20: every next_run written by add_task, by update_task with a new      *)
(* schedule, by the poll cycle for a task lacking next_run, and at the end *)
(* of a poll-dispatched run is strictly later than the time at which it    *)
(* was computed.                                                           *)
C20_NextRunStrictlyLater ==
    /\ [](\A t \in TaskIds :
            (/\ active
             /\ PollingLoops # {}
             /\ IsRow(store[t]) /\ store[t].enabled /\ running[t] = 0)
            => LET after == CheckFrom(1, LackingNextRun(t), LackingNextRun(t),
                                      running, execs).st[t].next_run
               IN  after # NoTime /\ after > now)
    /\ [][/\ \A t \in NewIds, s \in Schedules, b \in BOOLEAN :
               add_task(t, s, b) => store'[t].next_run > now
          /\ \A t \in TaskIds, s \in Schedules :
               (IsRow(store[t]) /\ update_task(t, [schedule |-> s]))
               => store'[t].next_run > now
          /\ \A e \in ExecIds, o \in Outcomes :
               (/\ Live(e)
                /\ ~(execs[e].snap.do_only_once /\ o = "completed")
                /\ ExecComplete(e, o))
               => store'[execs[e].task].next_run > now
         ]_vars

\* Only start() and add_task have been called; a poll-dispatched run of the
\* recurring task has completed and its next_run lies ahead.
C20_Witness ==
    /\ calls = 2
    /\ active
    /\ \E t \in TaskIds :
          /\ IsRow(store[t])
          /\ ~store[t].do_only_once
          /\ store[t].status = "completed"
          /\ store[t].last_run # NoTime
          /\ store[t].next_run = NextTrigger(store[t].schedule, now)
          /\ Len(executions) = 1

\* The period of "* * * * *", which is 60 seconds.
EveryMinute == 2

\* This step ends, with its result written, the poll-dispatched run e of a
\* recurring every-minute task whose shell command succeeded.
EveryMinuteRunEnds(e) ==
    /\ HasReturned(e)
    /\ execs[e].type = "shell_command"
    /\ Succeeded(execs[e].handler)
    /\ execs[e].snap.schedule = EveryMinute
    /\ ~execs[e].snap.do_only_once
    /\ XReturn(e)

(* C21: after the successful poll-dispatched shell execution of a task     *)
(* with schedule "* * * * *" and do_only_once=false, the stored task has   *)
(* status=completed and a next_run at least 60 seconds later than its      *)
(* last_run.                                                               *)
C21_EveryMinuteRun ==
    [][\A e \in ExecIds :
          EveryMinuteRunEnds(e)
          => LET t == execs[e].task
             IN  /\ store'[t].status = "completed"
                 /\ store'[t].next_run >= store'[t].last_run + EveryMinute]_vars

(* C21, amended: after such an execution the stored task has               *)
(* status=completed and its next_run is the first trigger after the time   *)
(* the execution ended: later than last_run, by 60 seconds at most more    *)
(* than the run took, and by less than 60 seconds when the run started     *)
(* after its trigger and ended before the next.                            *)
C21_EveryMinuteNextTrigger ==
    [][\A e \in ExecIds :
          EveryMinuteRunEnds(e)
          => LET t == execs[e].task
             IN  /\ store'[t].status = "completed"
                 /\ store'[t].last_run = execs[e].snap.last_run
                 /\ store'[t].next_run = NextTrigger(EveryMinute, now)
                 /\ store'[t].next_run > store'[t].last_run
                 /\ store'[t].next_run <= now + EveryMinute]_vars

\* A recurring every-minute task was dispatched after its trigger and its
\* shell command succeeded: it is stored completed, and its next_run is less
\* than 60 seconds after its last_run.
C21_Witness ==
    \E t \in TaskIds :
        /\ IsRow(store[t])
        /\ store[t].schedule = EveryMinute
        /\ ~store[t].do_only_once
        /\ store[t].status = "completed"
        /\ Len(executions) = 1
        /\ store[t].last_run # NoTime
        /\ store[t].next_run < store[t].last_run + EveryMinute

----------------------------------------------------------------------------
(* task.py: the construction of a Task and its validators *)

\* The fields that carry what a task runs, and the one each type requires.
PayloadFields == {"command", "api_url", "prompt", "reminder_message"}

RequiredField(type) ==
    IF type = "shell_command" THEN "command"
    ELSE IF type = "api_call" THEN "api_url"
    ELSE IF type = "ai" THEN "prompt"
    ELSE "reminder_message"

\* What the caller gives for a field: nothing (the keyword is left out), None,
\* the empty string, a string of non-ASCII characters only, or a text.
Omitted == "omitted"
NonAscii == "non-ascii"
PayloadInputs == {Omitted, None, "", NonAscii, "text"}

\* Lines 32-36: the non-ASCII characters are stripped.
sanitize_ascii(text) == IF text = NonAscii THEN "" ELSE text

\* Line 63: the fields the pre-validator validate_ascii_fields is set on.
AsciiFields == {"command", "prompt", "reminder_message"}

\* The value field f gets: its default when the keyword is left out, else what
\* the pre-validator makes of the value given.
FieldValue(f, given) ==
    IF given = Omitted THEN None
    ELSE IF f \in AsciiFields THEN sanitize_ascii(given)
    ELSE given

\* Lines 70-96: validate_command, validate_api_url, validate_prompt and
\* validate_reminder_message raise when the type requires the field and
\* `not v`.  They are declared without always=True, so pydantic does not call
\* them for a field whose keyword is left out.
FieldError(type, f, given) ==
    /\ given # Omitted
    /\ RequiredField(type) = f
    /\ ~Truthy(FieldValue(f, given))

\* api_headers as the caller gives it: left out, None, {} or a dict with
\* entries; nothing validates it.
EmptyDict == "dict()"
Headers == "dict(k=v)"
HeaderInputs == {Omitted, None, EmptyDict, Headers}

\* The fields of the Task object that Task(type=type, command=..., ...) makes
\* of the keywords given.
Fields(type, given) ==
    [type |-> type,
     payload |-> [f \in PayloadFields |-> FieldValue(f, given[f])],
     api_headers |-> IF "api_headers" \in DOMAIN given
                     THEN FieldValue("api_headers", given.api_headers)
                     ELSE None]

\* Whether pydantic raises the ValidationError that collects the validators'
\* errors.
Invalid(type, given) ==
    \E f \in PayloadFields : FieldError(type, f, given[f])

\* Task(type=type, command=..., api_url=..., prompt=..., reminder_message=...)
\* called: the Task object, or the ValidationError.
Task(type, given) ==
    /\ result' = IF Invalid(type, given) THEN Ret("ValidationError")
                 ELSE [ret |-> "Task", task |-> Fields(type, given)]
    /\ UNCHANGED <<prog, warned, onceDone, calls>>

\* Tasks constructed with any type and any payload.
NextTask ==
    \E type \in TaskTypes, given \in [PayloadFields -> PayloadInputs] :
        Task(type, given)

SpecTask == Init /\ [][NextTask]_vars

(* C22: constructing a task without the payload field its type requires,   *)
(* the field left out, None or empty, fails with a validation error: no    *)
(* Task object lacking its payload comes to exist (so none reaches         *)
(* add_task, the store or the executor).                                   *)
C22_PayloadRequired ==
    [][\A type \in TaskTypes, given \in [PayloadFields -> PayloadInputs] :
          (given[RequiredField(type)] \in {Omitted, None, ""} /\ Task(type, given))
          => result' = Ret("ValidationError")]_vars

----------------------------------------------------------------------------
\* The stored task t with enabled and status set together, and updated_at.
Switched(t, enabled, status) ==
    [store EXCEPT ![t] = [store[t] EXCEPT !.enabled = enabled,
                                          !.status = status,
                                          !.updated_at = now]]

(* C23: disable_task on an existing task leaves it stored with             *)
(* enabled=false and status=disabled, enable_task with enabled=true and    *)
(* status=pending; no other field of it changes but updated_at, and no     *)
(* other task, execution record or in-flight entry.                        *)
C23_EnableDisable ==
    [][\A t \in TaskIds :
          /\ (IsRow(store[t]) /\ disable_task(t))
                => /\ store' = Switched(t, FALSE, "disabled")
                   /\ UNCHANGED <<executions, running, execs>>
          /\ (IsRow(store[t]) /\ enable_task(t))
                => /\ store' = Switched(t, TRUE, "pending")
                   /\ UNCHANGED <<executions, running, execs>>]_vars

\* A do_only_once task that a successful run had disabled has been enabled
\* again: it is stored enabled and pending, with the last_run of that run.
C23_Witness ==
    \E t \in TaskIds :
        /\ IsRow(store[t])
        /\ store[t].do_only_once
        /\ store[t].enabled
        /\ store[t].status = "pending"
        /\ store[t].last_run # NoTime
        /\ Len(executions) = 1
        /\ store[t].updated_at = now

----------------------------------------------------------------------------
(* persistence.py: what save_task writes of a Task and _row_to_task reads *)

json_dumps(d) == IF d = EmptyDict THEN "{}" ELSE "{k: v}"
json_loads(text) == IF text = "{}" THEN EmptyDict ELSE Headers

\* Lines 94-115: the values save_task binds.  `if task.api_headers` is false
\* of None and of the empty dict.
RowOf(task) ==
    [task EXCEPT !.api_headers = IF @ # None /\ @ # EmptyDict
                                 THEN json_dumps(@) ELSE None]

\* Lines 216-247: Task(...) called with every column as a keyword, so that
\* every validator runs; the Task object, or the ValidationError.
row_to_task(row) ==
    IF Invalid(row.type, row.payload) THEN Ret("ValidationError")
    ELSE [row EXCEPT
            !.payload = [f \in PayloadFields |-> FieldValue(f, row.payload[f])],
            !.api_headers = IF Truthy(@) THEN json_loads(@) ELSE None]

\* What a call that returns a Task object gives.
ReturnedObject(t, task) == [ret |-> "task", id |-> t, task |-> task]

\* The Task constructed as the tools and the tests construct it, with a fresh
\* id, then Scheduler.add_task called with it.
AddBuilt(t, type, given, schedule, once) ==
    /\ store[t] = NoTask
    /\ IF Invalid(type, given)
       THEN /\ result' = Ret("ValidationError")
            /\ UNCHANGED store
       ELSE IF ~ValidSchedule(schedule)
       THEN /\ result' = Ret("ValueError")
            /\ UNCHANGED store
       ELSE LET task == [(NewTask(schedule, once) @@ Fields(type, given))
                            EXCEPT !.next_run = NextTrigger(schedule, now)]
            IN  /\ store' = save_task(store, t, RowOf(task))
                /\ result' = ReturnedObject(t, task)
    /\ warned' = "none"
    /\ UNCHANGED <<now, executions, active, schedTask, running, loops, execs,
                   stopPc, onceDone, calls>>

\* Scheduler.get_task: Database.get_task makes a Task of the row it finds.
GetStored(t) ==
    /\ result' = IF ~IsRow(store[t]) THEN Ret("none")
                 ELSE IF row_to_task(store[t]) = Ret("ValidationError")
                 THEN Ret("ValidationError")
                 ELSE ReturnedObject(t, row_to_task(store[t]))
    /\ warned' = "none"
    /\ UNCHANGED <<prog, onceDone, calls>>

\* The keywords of a Task with api_headers among them.
GivenWithHeaders ==
    {p @@ [api_headers |-> h] : p \in [PayloadFields -> PayloadInputs],
                                h \in HeaderInputs}

\* Tasks of any type and payload added, then read back.
NextPersist ==
    \/ Tick
    \/ \E t \in NewIds :
          /\ store[t] = NoTask
          /\ \E type \in TaskTypes, given \in GivenWithHeaders,
                s \in Schedules \cup {InvalidSchedule}, b \in BOOLEAN :
                AddBuilt(t, type, given, s, b)
    \/ \E t \in TaskIds : GetStored(t)

SpecPersist == Init /\ [][NextPersist]_vars

\* The call that returned last was add_task, or a get_task, that gave task t.
GaveTask(t) ==
    /\ result.ret = "task"
    /\ result.id = t
    /\ IsRow(store[t])

(* C24: get_task(t.id) after add_task(t) has succeeded, the task not        *)
(* updated, run or deleted since, returns a task equal in every field to    *)
(* the one add_task stored and returned: save followed by load is the       *)
(* identity.                                                                *)
C24_SaveLoadIdentity ==
    [][\A t \in TaskIds :
          (GaveTask(t) /\ GetStored(t)) => result' = result]_vars

----------------------------------------------------------------------------
(* C25: delete_task(id) returns true exactly when a row with that id       *)
(* existed; when it has returned get_task(id) finds nothing; and           *)
(* delete_task(id) called again on the deleted task returns false and      *)
(* changes nothing.                                                        *)
C25_DeleteTask ==
    [][\A t \in TaskIds :
          /\ DeleteTask(t)
                => /\ (result' = Ret("true")) <=> IsRow(store[t])
                   /\ result' \in {Ret("true"), Ret("false")}
                   /\ ~IsRow(store'[t])
                   /\ \A u \in TaskIds \ {t} : store'[u] = store[u]
          /\ (store[t] = Deleted /\ DeleteTask(t))
                => (result' = Ret("false") /\ UNCHANGED prog)]_vars

\* The task was added and deleted, and the third call, delete_task again,
\* has returned false.
C25_Witness ==
    /\ calls = 3
    /\ result = Ret("false")
    /\ \E t \in TaskIds : store[t] = Deleted

----------------------------------------------------------------------------
(* C26: delete_task leaves the execution log as it is, so the records of   *)
(* the deleted task are still what get_task_executions selects for its    *)
(* id; and no operation removes an execution record: every step leaves    *)
(* the stored records in place and at most appends to them.               *)
C26_ExecutionsKept ==
    [][/\ \A t \in TaskIds :
             DeleteTask(t)
             => /\ executions' = executions
                /\ ExecutionsOf(executions', t) = ExecutionsOf(executions, t)
       /\ Len(executions') >= Len(executions)
       /\ SubSeq(executions', 1, Len(executions)) = executions]_vars

\* A task that has run is deleted; its execution record is in the log.
C26_Witness ==
    /\ result = Ret("true")
    /\ \E t \in TaskIds :
          /\ store[t] = Deleted
          /\ Len(ExecutionsOf(executions, t)) = 1

----------------------------------------------------------------------------
(* persistence.py: Database.get_executions *)

\* The TaskExecution with the columns the query reads: its id (a fresh uuid,
\* here the number of the row) and its start_time.
ExecutionRow(ex, t, start, status) ==
    TaskExecution(t, start, NoTime, status)
        @@ [id |-> Len(ex) + 1, start_time |-> start]

\* The rows in the order they were inserted, without ORDER BY.
OrderBy_Unordered(ex, rows) ==
    {[i \in 1..Cardinality(rows) |->
        ex[CHOOSE j \in rows : Cardinality({m \in rows : m < j}) = i - 1]]}

\* ORDER BY start_time DESC over the rows (indices of ex) selected: every
\* order the sort can give, rows of equal start_time in any order.
RECURSIVE OrderBy(_, _)
OrderBy(ex, rows) ==
    IF rows = {} THEN {<<>>}
    ELSE UNION {{<<ex[i]>> \o rest : rest \in OrderBy(ex, rows \ {i})} :
                   i \in {j \in rows :
                            \A m \in rows : ex[j].start_time >= ex[m].start_time}}

\* LIMIT ?: a negative limit is no limit.
Limit(rows, limit) ==
    IF limit < 0 \/ limit > Len(rows) THEN rows ELSE SubSeq(rows, 1, limit)

\* The query without its ORDER BY clause.
get_executions_Unordered(ex, t, limit) ==
    {Limit(rows, limit) :
        rows \in OrderBy_Unordered(ex, {i \in 1..Len(ex) : ex[i].task_id = t})}

\* Lines 208-214: the lists the query can return.
get_executions(ex, t, limit) ==
    {Limit(rows, limit) :
        rows \in OrderBy(ex, {i \in 1..Len(ex) : ex[i].task_id = t})}

\* Database.save_execution called with a new execution of task t.
SaveExecution(t, start, status) ==
    /\ Len(executions) < MaxLog
    /\ executions' = save_execution(executions,
                                    ExecutionRow(executions, t, start, status))
    /\ UNCHANGED <<now, store, active, schedTask, running, loops, execs,
                   stopPc, warned, onceDone, calls, result>>

\* Scheduler.get_task_executions(t, limit)
GetTaskExecutions(t, limit) ==
    /\ \E rows \in get_executions(executions, t, limit) :
          result' = [ret |-> "executions", rows |-> rows]
    /\ UNCHANGED <<prog, warned, onceDone, calls>>

Limits == 0..(MaxLog + 1)

\* Executions of any task saved with any start time, and queried.
NextLog ==
    \/ \E t \in TaskIds, start \in 0..MaxTime, status \in Outcomes :
          SaveExecution(t, start, status)
    \/ \E t \in TaskIds, limit \in Limits : GetTaskExecutions(t, limit)

SpecLog == Init /\ [][NextLog]_vars

\* The stored records of task t.
StoredOf(t) == {executions[i] : i \in {j \in 1..Len(executions) :
                                          executions[j].task_id = t}}

----------------------------------------------------------------------------
(* C28: each execution that the executor finishes is finalized exactly     *)
(* once: the step that ends it adds exactly one record to the execution    *)
(* log, a record of that task with a terminal status (completed or         *)
(* failed), and leaves every stored record as it is; one run never         *)
(* produces two records.                                                   *)
C28_FinalizedOnce ==
    [][/\ \A e \in ExecIds :
             Finishes(e)
             => /\ Len(executions') = Len(executions) + 1
                /\ executions'[Len(executions')].task_id = execs[e].task
                /\ executions'[Len(executions')].status \in Outcomes
       /\ Len(executions') >= Len(executions)
       /\ SubSeq(executions', 1, Len(executions)) = executions]_vars

----------------------------------------------------------------------------
(* C29: every entry of the in-flight set belongs to a live execution of    *)
(* its task: when the execution ends, by returning, by an unexpected       *)
(* error or by a cancellation from stop(), also one that arrives before    *)
(* the coroutine has started to run, the entry is removed with it.         *)
C29_InFlightIsLive ==
    \A t \in TaskIds :
        running[t] # 0
        => /\ running[t] \in ExecIds
           /\ Live(running[t])
           /\ execs[running[t]].task = t

----------------------------------------------------------------------------
(* C30: nothing but stop() makes the poll loop exit or the scheduler       *)
(* inactive: not an execution that failed or timed out, not an unexpected  *)
(* error in its bookkeeping, not a failing read or write of the store in   *)
(* a poll cycle.  A step that clears active is a stop(), and a poll loop   *)
(* stops polling only in a stop() or after one has cleared active.         *)
C30_LoopSurvives ==
    [][/\ (active /\ ~active') => StopBegin
       /\ \A l \in LoopIds :
             (l \in PollingLoops /\ loops'[l] \notin {"created", "sleeping"})
             => (StopBegin \/ ~active)]_vars

\* The run of a task has ended in an unexpected error after its execution was
\* saved, and the scheduler is active with its poll loop asleep until the
\* next cycle.
C30_Witness ==
    /\ active
    /\ schedTask # 0
    /\ loops[schedTask] = "sleeping"
    /\ Len(executions) = 2
    /\ executions[1].status = "completed"
    /\ executions[2].status = "failed"
    /\ \E t \in TaskIds : IsRow(store[t]) /\ store[t].status = "failed"

----------------------------------------------------------------------------
(* C31: an error raised inside the poll cycle's own bookkeeping, such as   *)
(* a failure to load the task list, stops the poll loop and leaves the     *)
(* scheduler inactive.                                                     *)
C31_PollErrorStopsLoop ==
    [][\A l \in LoopIds :
          CheckTasksFails(l)
          => (~active' /\ loops'[l] \notin {"created", "sleeping"})]_vars

----------------------------------------------------------------------------
\* This step brings coroutine e to its call of the executor.
InvokesExecutor(e) ==
    /\ execs'[e] # NoExec
    /\ execs'[e].pc = "executing"
    /\ ~(Live(e) /\ execs[e].pc = "executing")

(* C32: whenever the executor is invoked for a task, by a poll dispatch or *)
(* by run_task_now, the same step has written the stored task with         *)
(* status=running and last_run the current time: the executor is never     *)
(* invoked for a task that this dispatch has not stored as running.        *)
C32_RunningBeforeExecutor ==
    [][\A e \in ExecIds :
          InvokesExecutor(e)
          => LET t == execs'[e].task
             IN  /\ IsRow(store'[t])
                 /\ store'[t].status = "running"
                 /\ store'[t].last_run = now
                 /\ execs'[e].snap = store'[t]]_vars

\* The poll cycle has dispatched a task that had run and completed before,
\* and its coroutine is at the executor: the task is stored running, its
\* last_run the current time.
C32_Witness ==
    \E e \in ExecIds :
        /\ Live(e)
        /\ execs[e].kind = "poll"
        /\ execs[e].pc = "executing"
        /\ Len(executions) = 1
        /\ store[execs[e].task].status = "running"
        /\ store[execs[e].task].last_run = now
        /\ running[execs[e].task] = e

----------------------------------------------------------------------------
(* The scheduler started over a database file that already holds tasks *)

\* A row of the tasks table as an earlier run of the server, or another
\* writer of the file, left it: next_run is a nullable column, and a row
\* whose schedule does not parse has none.
StoredRows ==
    {[enabled |-> en, do_only_once |-> FALSE, schedule |-> s,
      last_run |-> NoTime, next_run |-> nr,
      status |-> IF en THEN "pending" ELSE "disabled", updated_at |-> 0] :
        en \in BOOLEAN, s \in Schedules, nr \in {NoTime, 1}}
    \cup
    {[enabled |-> en, do_only_once |-> FALSE, schedule |-> InvalidSchedule,
      last_run |-> NoTime, next_run |-> NoTime,
      status |-> IF en THEN "pending" ELSE "disabled", updated_at |-> 0] :
        en \in BOOLEAN}

\* Scheduler.__init__ over such a file.
InitPoll ==
    /\ now = 0
    /\ store \in [TaskIds -> StoredRows \cup {NoTask}]
    /\ executions = <<>>
    /\ active = FALSE
    /\ schedTask = 0
    /\ running = [t \in TaskIds |-> 0]
    /\ loops = [l \in LoopIds |-> "none"]
    /\ execs = [e \in ExecIds |-> NoExec]
    /\ stopPc = 0
    /\ warned = "none"
    /\ onceDone = {}
    /\ calls = 0
    /\ result = Ret("none")

\* start(), the poll loop and the executions it dispatches.
NextPoll ==
    \/ Tick
    \/ LifeCall(Start)
    \/ \E l \in LoopIds : LoopStep(l)
    \/ \E e \in ExecIds : ExecBegin(e)
    \/ \E e \in ExecIds, o \in Outcomes : ExecComplete(e, o)

SpecPoll == InitPoll /\ [][NextPoll]_vars

\* Task t is one the for loop of this poll cycle reaches line 91 for.
Examined(t) ==
    /\ IsRow(store[t])
    /\ store[t].enabled
    /\ running[t] = 0

(* C33: in a poll cycle an enabled task that is not in flight and has no   *)
(* next_run gets a next_run computed from its schedule and stored; when    *)
(* the schedule does not parse the task is passed over for that cycle,     *)
(* its row unchanged, and every other task of the cycle is still examined  *)
(* and dispatched if it is due.                                            *)
C33_NextRunComputed ==
    [][\A l \in LoopIds, t \in TaskIds :
          (/\ active
           /\ LoopStep(l)
           /\ Examined(t)
           /\ store[t].next_run = NoTime)
          => IF ValidSchedule(store[t].schedule)
             THEN store'[t] = [store[t] EXCEPT
                                 !.next_run = NextTrigger(store[t].schedule, now)]
             ELSE /\ store'[t] = store[t]
                  /\ running'[t] = 0
                  /\ \A u \in TaskIds \ {t} :
                        /\ (Examined(u) /\ store[u].next_run = NoTime
                              /\ ValidSchedule(store[u].schedule))
                           => store'[u].next_run = NextTrigger(store[u].schedule, now)
                        /\ (Examined(u) /\ Due(store[u]))
                           => \E e \in ExecIds : Dispatches(e, "poll", u)]_vars

\* A poll cycle has passed over the first task, enabled and pending with a
\* schedule that does not parse and no next_run, and has dispatched the
\* second, which was due.
C33_Witness ==
    /\ IsRow(store["t1"])
    /\ store["t1"].enabled
    /\ store["t1"].status = "pending"
    /\ ~ValidSchedule(store["t1"].schedule)
    /\ store["t1"].next_run = NoTime
    /\ running["t1"] = 0
    /\ running["t2"] \in ExecIds
    /\ execs[running["t2"]].kind = "poll"
    /\ execs[running["t2"]].task = "t2"
    /\ \E l \in LoopIds : loops[l] = "sleeping"

(* C34: the poll cycle dispatches a task only when it is due: every task a *)
(* poll cycle dispatches has a stored next_run, and that next_run is not   *)
(* later than the time of the poll cycle.                                  *)
C34_DispatchedOnlyWhenDue ==
    [][\A l \in LoopIds, t \in TaskIds, e \in ExecIds :
          (LoopStep(l) /\ Dispatches(e, "poll", t))
          => /\ IsRow(store[t])
             /\ store[t].next_run # NoTime
             /\ store[t].next_run <= now
             /\ store'[t].next_run = store[t].next_run]_vars

\* A poll cycle at the very time of a task's next_run has dispatched it, the
\* coroutine not yet started; at the poll cycles before that time it was
\* not dispatched.
C34_Witness ==
    \E e \in ExecIds :
        /\ Live(e)
        /\ execs[e].kind = "poll"
        /\ execs[e].pc = "created"
        /\ ~execs[e].cancelled
        /\ running[execs[e].task] = e
        /\ store[execs[e].task].next_run = now
        /\ store[execs[e].task].last_run = NoTime
        /\ store[execs[e].task].status = "pending"

(* C35: an execution in progress does not block the poll loop.  While the  *)
(* execution of one task is at the executor the sleeping loop can take its *)
(* next turn, and a poll cycle taken then dispatches every other task that *)
(* is enabled, due and not in the in-flight set.                           *)
C35_PollNotBlocked ==
    /\ [](\A l \in LoopIds, t \in TaskIds :
            (active /\ loops[l] = "sleeping" /\ InProgress(t) # {})
            => ENABLED LoopStep(l))
    /\ [][\A l \in LoopIds, t \in TaskIds, u \in TaskIds :
            (/\ active
             /\ LoopStep(l)
             /\ InProgress(t) # {}
             /\ u # t
             /\ Examined(u)
             /\ Due(store[u]))
            => \E e \in ExecIds :
                  /\ Dispatches(e, "poll", u)
                  /\ running'[u] = e
                  /\ InProgress(t) \subseteq {x \in ExecIds : execs'[x] = execs[x]}]_vars

\* Two different tasks are at the executor at the same time, the second
\* dispatched by a poll cycle later than the one that dispatched the first.
C35_Witness ==
    \E e1 \in ExecIds, e2 \in ExecIds :
        /\ Live(e1) /\ Live(e2)
        /\ execs[e1].task = "t1" /\ execs[e2].task = "t2"
        /\ execs[e1].pc = "executing" /\ execs[e2].pc = "executing"
        /\ execs[e1].kind = "poll" /\ execs[e2].kind = "poll"
        /\ store["t1"].status = "running" /\ store["t2"].status = "running"
        /\ store["t1"].last_run < store["t2"].last_run

----------------------------------------------------------------------------
(* main: the components built from the configuration *)

\* The largest configured number of seconds.
MaxSeconds == 10
Seconds == 1..MaxSeconds

\* Scheduler.__init__: self._check_interval = 5.
DefaultCheckInterval == 5
\* Executor.__init__: self.execution_timeout = 300.
DefaultExecutionTimeout == 300

\* Config() with MCP_SCHEDULER_CHECK_INTERVAL and
\* MCP_SCHEDULER_EXECUTION_TIMEOUT set (or the config file's scheduler section).
Config(check_interval, execution_timeout) ==
    [check_interval |-> check_interval, execution_timeout |-> execution_timeout]

\* Executor(config.openai_api_key, config.ai_model)
Executor == [execution_timeout |-> DefaultExecutionTimeout]

\* Scheduler(database, executor)
Scheduler == [check_interval |-> DefaultCheckInterval]

\* main() up to the start of the scheduler thread and of the server.
main(check_interval, execution_timeout) ==
    /\ result = Ret("none")
    /\ LET config == Config(check_interval, execution_timeout)
       IN  result' = [ret |-> "main",
                      config |-> config,
                      executor |-> [Executor EXCEPT
                                      !.execution_timeout = config.execution_timeout],
                      scheduler |-> Scheduler]
    /\ UNCHANGED <<prog, warned, onceDone, calls>>

\* The get_server_info tool.
get_server_info ==
    /\ result.ret = "main"
    /\ result' = [result EXCEPT !.ret = "server_info"]
                 @@ [info |-> [check_interval |-> result.config.check_interval,
                               execution_timeout |-> result.config.execution_timeout]]
    /\ UNCHANGED <<prog, warned, onceDone, calls>>

NextMain ==
    \/ \E ci \in Seconds, et \in Seconds : main(ci, et)
    \/ get_server_info

SpecMain == Init /\ [][NextMain]_vars

\* asyncio.sleep(self._check_interval) in _scheduler_loop: the seconds between
\* two poll cycles.
SleepSeconds == result.scheduler.check_interval

\* asyncio.wait_for(process.communicate(), timeout=self.execution_timeout)
WaitForSeconds == result.executor.execution_timeout

(* C36: the interval between the poll cycles of the running scheduler is   *)
(* the configured check_interval that get_server_info reports, as the      *)
(* timeout of the executor is the configured execution_timeout.            *)
C36_ConfiguredIntervals ==
    result.ret = "server_info"
    => /\ SleepSeconds = result.info.check_interval
       /\ WaitForSeconds = result.info.execution_timeout

----------------------------------------------------------------------------
\* The changes of status of the lifecycle pending -> running ->
\* {completed | failed} -> pending | disabled, the one-shot success taken as
\* one change or as two.
Lifecycle ==
    {<<"pending", "running">>,
     <<"running", "completed">>, <<"running", "failed">>,
     <<"completed", "pending">>, <<"failed", "pending">>,
     <<"completed", "disabled">>, <<"running", "disabled">>}

(* C37: every change of a task's stored status is a change of the          *)
(* lifecycle pending -> running -> {completed | failed} -> pending         *)
(* (recurring) | disabled (one-shot success), a change to disabled made by *)
(* disable_task, or a change from disabled to pending made by enable_task. *)
C37_StatusLifecycle ==
    [][\A t \in TaskIds :
          (/\ IsRow(store[t]) /\ IsRow(store'[t])
           /\ store'[t].status # store[t].status)
          => \/ <<store[t].status, store'[t].status>> \in Lifecycle
             \/ store'[t].status = "disabled" /\ disable_task(t)
             \/ /\ store[t].status = "disabled"
                /\ store'[t].status = "pending"
                /\ enable_task(t)]_vars

----------------------------------------------------------------------------
(* Cancellation of an execution inside _execute_shell_command *)

\* The coroutine c ended by CancelledError in its handler: what became of
\* the process the handler had spawned.
WithProcess(c, killed) ==
    [task |-> c.task, kind |-> c.kind, pc |-> "cancelled", snap |-> c.snap,
     cancelled |-> FALSE, type |-> c.type, killed |-> killed]

\* CancelledError is thrown into the coroutine at the await of
\* process.communicate() (executor.py line 147).  It is neither
\* asyncio.TimeoutError nor an Exception, so it passes the except blocks of
\* lines 158 and 165, of execute_task (line 89) and of _execute_task (line
\* 141), and only the finally block of _execute_task runs.
XCancelled(e) ==
    /\ InHandler(e)
    /\ execs[e].cancelled
    /\ running' = Release(running, execs[e].task)
    /\ execs' = [execs EXCEPT ![e] = WithProcess(execs[e], FALSE)]
    /\ UNCHANGED <<now, store, executions, active, schedTask, loops, stopPc,
                   warned, onceDone, calls, result>>

\* The scheduler with shell-command tasks, stopped and restarted, its tasks
\* deleted, while executions are inside the handler.
NextCancel ==
    \/ XTick
    \/ Call(Start)
    \/ Call(StopBegin)
    \/ StopResume
    \/ \E t \in NewIds, s \in Schedules : Call(add_task(t, s, FALSE))
    \/ \E t \in NewIds : Call(DeleteTask(t))
    \/ \E l \in LoopIds : LoopStep(l)
    \/ \E l \in LoopIds : LoopCancelled(l)
    \/ \E e \in ExecIds : ExecBegin(e)
    \/ \E e \in ExecIds :
          Live(e) /\ ~execs[e].cancelled /\ XStart(e, "shell_command", TRUE)
    \/ \E e \in ExecIds :
          \E h \in HandlerOutcomes("shell_command", "running") : XHandlerEnds(e, h)
    \/ \E e \in ExecIds : XTimeout(e)
    \/ \E e \in ExecIds : XReturn(e)
    \/ \E e \in ExecIds : ~InHandler(e) /\ ExecCancelled(e)
    \/ \E e \in ExecIds : XCancelled(e)

SpecCancel == Init /\ [][NextCancel]_vars

(* C38: when stop() or delete_task cancels an execution that is inside the *)
(* shell-command handler, the process spawned for the command is killed.   *)
C38_CancelKillsProcess ==
    \A e \in ExecIds :
        (/\ Live(e)
         /\ execs[e].pc = "cancelled"
         /\ execs[e].type = "shell_command")
        => execs[e].killed

----------------------------------------------------------------------------
(* C39: in every reachable state of the store a task has status=disabled   *)
(* exactly when its enabled flag is false, whatever add_task, update_task, *)
(* enable_task, disable_task, run_task_now and the executions dispatched   *)
(* by the poll cycle have done.                                            *)
C39_DisabledIffNotEnabled ==
    \A t \in TaskIds :
        IsRow(store[t]) => (store[t].status = "disabled" <=> ~store[t].enabled)

----------------------------------------------------------------------------
(* Tasks disabled, by disable_task or by their one successful run, and     *)
(* enabled again while the scheduler runs                                  *)

\* enable_task called for a task that is stored as disabled.
Reenable(t) ==
    /\ IsRow(store[t])
    /\ ~store[t].enabled
    /\ store[t].status = "disabled"
    /\ enable_task(t)

NextEnable ==
    \/ Tick
    \/ LifeCall(Start)
    \/ \E t \in NewIds, s \in Schedules, b \in BOOLEAN :
          LifeCall(add_task(t, s, b))
    \/ \E t \in NewIds : LifeCall(disable_task(t))
    \/ \E t \in NewIds : LifeCall(Reenable(t))
    \/ \E l \in LoopIds : LoopStep(l)
    \/ \E e \in ExecIds : ExecBegin(e)
    \/ \E e \in ExecIds, o \in Outcomes : ExecComplete(e, o)

SpecEnable == Init /\ [][NextEnable]_vars

(* C40: after enable_task has re-enabled a disabled task, the poll cycle   *)
(* does not dispatch it before the first trigger of its schedule later     *)
(* than the time of that call.  A task stored as pending was written by    *)
(* add_task or by enable_task, at the time its updated_at holds.           *)
C40_NoDispatchBeforeTrigger ==
    [][\A l \in LoopIds, t \in TaskIds, e \in ExecIds :
          (/\ LoopStep(l)
           /\ Dispatches(e, "poll", t)
           /\ store[t].status = "pending")
          => now >= NextTrigger(store[t].schedule, store[t].updated_at)]_vars

====
